---- MODULE Spec2Model ----
(***************************************************************************)
(* Model of src/main.py: the /calculate-performance handler and the pure   *)
(* functions it calls (rank-label parsing, normalization, scoring and the  *)
(* rank-aware adjustment).                                                 *)
(*                                                                         *)
(* Numbers: Python floats are modelled as exact rationals <<n, d>> with    *)
(* d > 0 and gcd(n, d) = 1; metric values are naturals.  Strings are       *)
(* sequences of one-character strings.  Optional values are <<>> (None) or *)
(* <<v>>.                                                                  *)
(***************************************************************************)
EXTENDS Integers, Sequences, FiniteSets, TLC

(***************************************************************************)
(* Bounds of the model.                                                    *)
(***************************************************************************)
MaxMatches == 2
MaxVal == 2
MaxPred == 2
MaxNum == 4
MaxDen == 2

(***************************************************************************)
(* Exact rational arithmetic.                                              *)
(***************************************************************************)
Abs(x) == IF x < 0 THEN -x ELSE x

RECURSIVE Gcd(_, _)
Gcd(a, b) == IF b = 0 THEN a ELSE Gcd(b, a % b)

Rat(n, d) ==
    LET g == Gcd(Abs(n), Abs(d))
        s == IF d < 0 THEN -1 ELSE 1
    IN  <<s * (n \div g), s * (d \div g)>>

Zero == <<0, 1>>
One == <<1, 1>>
FromInt(n) == <<n, 1>>

\* The outcome of a division by zero (Python raises ZeroDivisionError); every
\* operation on it yields it again, and the handler's steps turn it into the
\* exception.
DivByZero == <<1, 0>>
IsDivByZero(x) == x[2] = 0

RAdd(x, y) ==
    IF IsDivByZero(x) \/ IsDivByZero(y) THEN DivByZero
    ELSE LET g == Gcd(x[2], y[2])
         IN  Rat(x[1] * (y[2] \div g) + y[1] * (x[2] \div g), (x[2] \div g) * y[2])

RNeg(x) == <<-x[1], x[2]>>
RSub(x, y) == RAdd(x, RNeg(y))

RMul(x, y) ==
    IF IsDivByZero(x) \/ IsDivByZero(y) THEN DivByZero
    ELSE IF x[1] = 0 \/ y[1] = 0 THEN Zero
    ELSE LET g1 == Gcd(Abs(x[1]), y[2])
             g2 == Gcd(Abs(y[1]), x[2])
         IN  <<(x[1] \div g1) * (y[1] \div g2), (x[2] \div g2) * (y[2] \div g1)>>

\* x / y
RDiv(x, y) ==
    IF IsDivByZero(x) \/ IsDivByZero(y) \/ y[1] = 0 THEN DivByZero
    ELSE RMul(x, Rat(y[2], y[1]))

RAbs(x) == <<Abs(x[1]), x[2]>>

\* a/b < c/d for a, c >= 0 and b, d > 0, by continued fractions (no products)
RECURSIVE PosLess(_, _, _, _)
PosLess(a, b, c, d) ==
    LET q1 == a \div b
        q2 == c \div d
        r1 == a % b
        r2 == c % d
    IN  IF q1 # q2 THEN q1 < q2
        ELSE IF r2 = 0 THEN FALSE
        ELSE IF r1 = 0 THEN TRUE
        ELSE PosLess(d, r2, b, r1)

RLess(x, y) ==
    IF x[1] < 0 /\ y[1] >= 0 THEN TRUE
    ELSE IF x[1] >= 0 /\ y[1] < 0 THEN FALSE
    ELSE IF x[1] >= 0 THEN PosLess(x[1], x[2], y[1], y[2])
    ELSE PosLess(-y[1], y[2], -x[1], x[2])

RLeq(x, y) == ~RLess(y, x)
RMax(x, y) == IF RLess(x, y) THEN y ELSE x
RMin(x, y) == IF RLess(y, x) THEN y ELSE x

(***************************************************************************)
(* Optional values.                                                        *)
(***************************************************************************)
None == <<>>
Some(v) == <<v>>
IsNone(o) == Len(o) = 0
Get(o) == o[1]

(***************************************************************************)
(* Python strings: sequences of one-character strings.                     *)
(***************************************************************************)
UpperCase == <<"A", "B", "C", "D", "E", "F", "G", "H", "I", "J", "K", "L", "M", "N", "O", "P", "Q", "R", "S", "T", "U", "V", "W", "X", "Y", "Z">>
LowerCase == <<"a", "b", "c", "d", "e", "f", "g", "h", "i", "j", "k", "l", "m", "n", "o", "p", "q", "r", "s", "t", "u", "v", "w", "x", "y", "z">>
Digits == <<"0", "1", "2", "3", "4", "5", "6", "7", "8", "9">>
Whitespace == {" "}

Range(f) == {f[i] : i \in DOMAIN f}
IndexOf(seq, c) == CHOOSE i \in DOMAIN seq : seq[i] = c

\* str.isalpha / str.isdigit on one character
IsAlpha(c) == c \in Range(UpperCase) \cup Range(LowerCase)
IsDigit(c) == c \in Range(Digits)

LowerChar(c) == IF c \in Range(UpperCase) THEN LowerCase[IndexOf(UpperCase, c)] ELSE c
UpperChar(c) == IF c \in Range(LowerCase) THEN UpperCase[IndexOf(LowerCase, c)] ELSE c

\* str.lower()
Lower(s) == [i \in DOMAIN s |-> LowerChar(s[i])]

\* str.capitalize(): first character upper-cased, the rest lower-cased
Capitalize(s) == [i \in DOMAIN s |-> IF i = 1 THEN UpperChar(s[i]) ELSE LowerChar(s[i])]

\* ''.join(c for c in s if pred(c))
KeepAlpha(s) == SelectSeq(s, IsAlpha)
KeepDigit(s) == SelectSeq(s, IsDigit)

\* str.strip(): leading and trailing whitespace removed
RECURSIVE LStrip(_)
LStrip(s) == IF s # <<>> /\ Head(s) \in Whitespace THEN LStrip(Tail(s)) ELSE s

RECURSIVE RStrip(_)
RStrip(s) ==
    IF s # <<>> /\ s[Len(s)] \in Whitespace THEN RStrip(SubSeq(s, 1, Len(s) - 1)) ELSE s

Strip(s) == RStrip(LStrip(s))

\* str.replace(" ", "")
RemoveSpaces(s) == SelectSeq(s, LAMBDA c : c # " ")

\* str.split(): the maximal runs of non-whitespace characters
RECURSIVE SplitFrom(_, _, _)
SplitFrom(s, cur, acc) ==
    IF s = <<>> THEN (IF cur = <<>> THEN acc ELSE Append(acc, cur))
    ELSE IF Head(s) \in Whitespace
         THEN SplitFrom(Tail(s), <<>>, IF cur = <<>> THEN acc ELSE Append(acc, cur))
         ELSE SplitFrom(Tail(s), Append(cur, Head(s)), acc)

Split(s) == SplitFrom(s, <<>>, <<>>)

\* the value of a non-empty run of decimal digits
RECURSIVE DigitsValue(_)
DigitsValue(s) ==
    IF s = <<>> THEN 0
    ELSE 10 * DigitsValue(SubSeq(s, 1, Len(s) - 1)) + (IndexOf(Digits, s[Len(s)]) - 1)

AllDigits(s) == s # <<>> /\ \A i \in DOMAIN s : IsDigit(s[i])

\* int(s) for a token without whitespace: an optional sign, then digits;
\* anything else raises ValueError
ParseInt(s) ==
    IF AllDigits(s) THEN [raised |-> "", value |-> DigitsValue(s)]
    ELSE IF s # <<>> /\ Head(s) \in {"+", "-"} /\ AllDigits(Tail(s))
         THEN [raised |-> "",
               value |-> IF Head(s) = "-" THEN -DigitsValue(Tail(s)) ELSE DigitsValue(Tail(s))]
    ELSE [raised |-> "ValueError", value |-> 0]

(***************************************************************************)
(* Rank labels: fetch_rank_averages and get_rank_tier.                     *)
(***************************************************************************)
\* the keys and values of get_rank_tier's base_rank_values
base_rank_names ==
    <<<<"i", "r", "o", "n">>,
      <<"b", "r", "o", "n", "z", "e">>,
      <<"s", "i", "l", "v", "e", "r">>,
      <<"g", "o", "l", "d">>,
      <<"p", "l", "a", "t", "i", "n", "u", "m">>,
      <<"d", "i", "a", "m", "o", "n", "d">>,
      <<"a", "s", "c", "e", "n", "d", "a", "n", "t">>,
      <<"i", "m", "m", "o", "r", "t", "a", "l">>,
      <<"r", "a", "d", "i", "a", "n", "t">>>>
base_rank_numbers == <<1, 4, 7, 10, 13, 16, 19, 22, 25>>

\* base_rank_values.get(base_rank, 0)
base_rank_values(base_rank) ==
    IF base_rank \in Range(base_rank_names)
    THEN base_rank_numbers[IndexOf(base_rank_names, base_rank)]
    ELSE 0

radiant == <<"r", "a", "d", "i", "a", "n", "t">>

\* f"{base_rank.capitalize()} {tier}" of fetch_rank_averages
formatted_rank(rank) ==
    LET rank_parts == RemoveSpaces(Strip(Lower(rank)))
        base_rank == KeepAlpha(rank_parts)
        tier == KeepDigit(rank_parts)
    IN  Capitalize(base_rank) \o <<" ">> \o tier

\* A dict whose values are never read is modelled by its set of keys; the
\* entries of global_data["ranks"] are [rank |-> label, keys |-> key set].
fetch_rank_averages(global_data, rank) ==
    LET hits == {i \in DOMAIN global_data.ranks :
                    global_data.ranks[i].rank = formatted_rank(rank)}
    IN  IF hits = {} THEN {}
        ELSE global_data.ranks[CHOOSE i \in hits : \A j \in hits : i <= j].keys

\* [raised |-> "" | "IndexError" | "ValueError", value |-> the tier returned]
get_rank_tier(rank) ==
    LET rank_parts == Split(Lower(rank))
    IN  IF rank_parts = <<>> THEN [raised |-> "IndexError", value |-> 0]
        ELSE LET base_rank == rank_parts[1]
                 base_value == base_rank_values(base_rank)
             IN  IF base_value = 0 THEN [raised |-> "", value |-> 0]
                 ELSE IF base_rank = radiant THEN [raised |-> "", value |-> base_value]
                 ELSE IF Len(rank_parts) > 1
                      THEN LET tier == ParseInt(rank_parts[2])
                           IN  IF tier.raised # "" THEN tier
                               ELSE [raised |-> "", value |-> base_value + (tier.value - 1)]
                      ELSE [raised |-> "", value |-> base_value + (1 - 1)]

(***************************************************************************)
(* Normalization and scoring.                                              *)
(***************************************************************************)
\* The fields of MatchPerformance the model keeps, in declaration order.
Fields == <<"kills", "deaths">>

\* max((match[metric] for match in matches), default=0)
RECURSIVE MaxOf(_, _)
MaxOf(matches, metric) ==
    IF matches = <<>> THEN 0
    ELSE LET rest == MaxOf(Tail(matches), metric)
             v == Head(matches)[metric]
         IN  IF Len(matches) = 1 THEN v ELSE IF v > rest THEN v ELSE rest

\* normalized[metric] of calculate_normalization_constants
normalized(matches, metric) ==
    LET max_val == MaxOf(matches, metric)
    IN  IF max_val # 0 THEN RDiv(One, FromInt(max_val)) ELSE Zero

\* a variant of calculate_normalization_constants without the equal weight
UnweightedConstants(matches, metrics) ==
    [metric \in Range(metrics) |-> normalized(matches, metric)]

calculate_normalization_constants(matches, metrics) ==
    LET num_metrics == Len(metrics)
    IN  IF num_metrics > 0
        THEN LET equal_weight == RDiv(One, FromInt(num_metrics))
             IN  [metric \in Range(metrics) |-> RMul(normalized(matches, metric), equal_weight)]
        ELSE [metric \in Range(metrics) |-> normalized(matches, metric)]

RECURSIVE calculate_score(_, _, _)
calculate_score(performance, constants, metrics) ==
    IF metrics = <<>> THEN Zero
    ELSE LET metric == metrics[Len(metrics)]
             score == calculate_score(performance, constants, SubSeq(metrics, 1, Len(metrics) - 1))
         IN  IF metric \in DOMAIN performance
             THEN RAdd(score, RMul(FromInt(performance[metric]), constants[metric]))
             ELSE score

RECURSIVE Sum(_)
Sum(scores) == IF scores = <<>> THEN Zero ELSE RAdd(Head(scores), Sum(Tail(scores)))

\* sum(actual_scores) / len(actual_scores) if actual_scores else 0
Average(actual_scores) ==
    IF actual_scores # <<>> THEN RDiv(Sum(actual_scores), FromInt(Len(actual_scores))) ELSE Zero

\* MatchPerformance.dict(): every field, the unset ones holding None
Dict(predicted_performance) ==
    [f \in Range(Fields) |->
        IF IsNone(predicted_performance[f]) THEN None ELSE Get(predicted_performance[f])]

\* [metric for metric, value in ....dict().items() if value is not None]
ProvidedMetrics(predicted_performance) ==
    SelectSeq(Fields, LAMBDA f : ~IsNone(predicted_performance[f]))

(***************************************************************************)
(* The rank-aware adjustment.                                              *)
(***************************************************************************)
ClampLow == <<1, 2>>
ClampHigh == <<3, 2>>
Discount == <<1, 5>>
Boost == <<1, 10>>

\* a variant of Clamp that leaves the factor as it is
Unclamped(adjustment_factor) == adjustment_factor

\* max(0.5, min(1.5, adjustment_factor))
Clamp(adjustment_factor) == RMax(ClampLow, RMin(ClampHigh, adjustment_factor))

\* a variant of AdjustStep whose deviation is the bare ratio of the scores
AdjustStepRatio(adjustment_factor, predicted_score, user_avg_score, rank_tier, metric, rank_averages) ==
    IF metric \in rank_averages /\ RLess(Zero, user_avg_score)
    THEN LET deviation == RDiv(predicted_score, user_avg_score)
             rank_scaling == RAdd(One, Rat(rank_tier, 10))
             factor ==
                 IF RLess(Zero, deviation)
                 THEN RMul(adjustment_factor,
                           RSub(One, RMul(RMul(deviation, <<1, 5>>), rank_scaling)))
                 ELSE RMul(adjustment_factor,
                           RAdd(One, RMul(RMul(RAbs(deviation), <<1, 10>>), rank_scaling)))
         IN  RMax(<<1, 2>>, RMin(<<3, 2>>, factor))
    ELSE adjustment_factor

\* one iteration of adjust_score_with_ai's loop: the adjustment factor after it
AdjustStep(adjustment_factor, predicted_score, user_avg_score, rank_tier, metric, rank_averages) ==
    IF metric \in rank_averages /\ RLess(Zero, user_avg_score)
    THEN LET deviation == RSub(RDiv(predicted_score, user_avg_score), One)
             rank_scaling == RAdd(One, Rat(rank_tier, 10))
             factor ==
                 IF RLess(Zero, deviation)
                 THEN RMul(adjustment_factor,
                           RSub(One, RMul(RMul(deviation, Discount), rank_scaling)))
                 ELSE RMul(adjustment_factor,
                           RAdd(One, RMul(RMul(RAbs(deviation), Boost), rank_scaling)))
         IN  Clamp(factor)
    ELSE adjustment_factor

RECURSIVE AdjustLoop(_, _, _, _, _)
AdjustLoop(predicted_score, user_avg_score, rank_tier, metrics, rank_averages) ==
    IF metrics = <<>> THEN One
    ELSE AdjustStep(AdjustLoop(predicted_score, user_avg_score, rank_tier,
                               SubSeq(metrics, 1, Len(metrics) - 1), rank_averages),
                    predicted_score, user_avg_score, rank_tier,
                    metrics[Len(metrics)], rank_averages)

\* adjust_score_with_ai once the rank tier is known
AdjustWithTier(predicted_score, user_avg_score, rank_averages, provided_metrics, rank_tier) ==
    IF rank_tier = 0 THEN predicted_score
    ELSE RMul(predicted_score,
              AdjustLoop(predicted_score, user_avg_score, rank_tier, provided_metrics, rank_averages))

\* round(x, 2): to the nearest hundredth, ties to the even one.  The two
\* decimal digits are taken one at a time, as in a long division.
Round2(x) ==
    LET a == Abs(x[1])
        whole == a \div x[2]
        r1 == (a % x[2]) * 10
        d1 == r1 \div x[2]
        r2 == (r1 % x[2]) * 10
        d2 == r2 \div x[2]
        rem == r2 % x[2]
        q == 10 * d1 + d2
        h == IF rem > x[2] - rem \/ (rem = x[2] - rem /\ q % 2 = 1) THEN q + 1 ELSE q
        sign == IF x[1] < 0 THEN -1 ELSE 1
    IN  Rat(sign * (whole * 100 + h), 100)

(***************************************************************************)
(* The handler calculate_performance, one request at a time.               *)
(*   data, global_data: the contents of the two JSON files (load_data)     *)
(*   bet_request: the request body                                         *)
(*   pc: the handler's position; the other variables are its locals        *)
(*   response: what the request ended with; called: the functions invoked  *)
(***************************************************************************)
VARIABLES data, global_data, bet_request, pc, user_rank, matches, rank_averages,
          provided_metrics, normalization_constants, actual_scores, avg_actual_score,
          predicted_score, rank_tier, adjustment_factor, idx,
          adjusted_predicted_score, odd_percentage, response, called

inputs == <<data, global_data, bet_request>>
vars == <<data, global_data, bet_request, pc, user_rank, matches, rank_averages,
          provided_metrics, normalization_constants, actual_scores, avg_actual_score,
          predicted_score, rank_tier, adjustment_factor, idx,
          adjusted_predicted_score, odd_percentage, response, called>>

NoResponse == [status |-> 0, detail |-> "", about |-> <<>>, body |-> <<>>]

\* raise HTTPException(status_code=404, detail=f"{detail} {about}")
HTTPException(detail, about) == [status |-> 404, detail |-> detail, about |-> about, body |-> <<>>]

\* an exception that leaves the handler: the framework answers 500
Unhandled(exception) == [status |-> 500, detail |-> exception, about |-> <<>>, body |-> <<>>]

\* get_user_rank: the rank of the one user the data file describes
get_user_rank(d, userId) == IF d.username = userId THEN d.rank ELSE None

\* not user_rank: None or the empty string
Falsy(rank) == IsNone(rank) \/ Get(rank) = <<>>

\* a variant of UserMatches that keeps every player's records
AllMatches(matchResults, userId) == matchResults

\* [m for m in data.get('matchResults', []) if m['name'] == userId]
UserMatches(matchResults, userId) == SelectSeq(matchResults, LAMBDA m : m.name = userId)

\* lines 141-145
GetUserRank ==
    /\ pc = "start"
    /\ user_rank' = get_user_rank(data, bet_request.userId)
    /\ called' = called \cup {"get_user_rank"}
    /\ IF Falsy(user_rank')
       THEN /\ response' = HTTPException("No rank found for user", <<bet_request.userId>>)
            /\ pc' = "done"
       ELSE /\ pc' = "matches"
            /\ UNCHANGED response
    /\ UNCHANGED <<inputs, matches, rank_averages, provided_metrics, normalization_constants,
                   actual_scores, avg_actual_score, predicted_score, rank_tier,
                   adjustment_factor, idx, adjusted_predicted_score, odd_percentage>>

\* a variant of FilterMatches that takes the whole list
FilterMatchesUnfiltered ==
    /\ pc = "matches"
    /\ matches' = data.matchResults
    /\ IF matches' = <<>>
       THEN /\ response' = HTTPException("No match history found for user", <<bet_request.userId>>)
            /\ pc' = "done"
       ELSE /\ pc' = "rank_averages"
            /\ UNCHANGED response
    /\ UNCHANGED <<data, global_data, bet_request, user_rank, rank_averages, provided_metrics,
                   normalization_constants, actual_scores, avg_actual_score, predicted_score,
                   rank_tier, adjustment_factor, idx, adjusted_predicted_score,
                   odd_percentage, called>>

\* lines 147-149
FilterMatches ==
    /\ pc = "matches"
    /\ matches' = UserMatches(data.matchResults, bet_request.userId)
    /\ IF matches' = <<>>
       THEN /\ response' = HTTPException("No match history found for user", <<bet_request.userId>>)
            /\ pc' = "done"
       ELSE /\ pc' = "rank_averages"
            /\ UNCHANGED response
    /\ UNCHANGED <<inputs, user_rank, rank_averages, provided_metrics, normalization_constants,
                   actual_scores, avg_actual_score, predicted_score, rank_tier,
                   adjustment_factor, idx, adjusted_predicted_score, odd_percentage, called>>

\* lines 151-153
FetchRankAverages ==
    /\ pc = "rank_averages"
    /\ rank_averages' = fetch_rank_averages(global_data, Get(user_rank))
    /\ called' = called \cup {"fetch_rank_averages"}
    /\ IF rank_averages' = {}
       THEN /\ response' = HTTPException("No global data found for rank", Get(user_rank))
            /\ pc' = "done"
       ELSE /\ pc' = "normalize"
            /\ UNCHANGED response
    /\ UNCHANGED <<inputs, user_rank, matches, provided_metrics, normalization_constants,
                   actual_scores, avg_actual_score, predicted_score, rank_tier,
                   adjustment_factor, idx, adjusted_predicted_score, odd_percentage>>

AnyDivByZero(f) == \E k \in DOMAIN f : IsDivByZero(f[k])

\* lines 155-156
Normalize ==
    /\ pc = "normalize"
    /\ provided_metrics' = ProvidedMetrics(bet_request.predicted_performance)
    /\ normalization_constants' = calculate_normalization_constants(matches, provided_metrics')
    /\ called' = called \cup {"calculate_normalization_constants"}
    /\ IF AnyDivByZero(normalization_constants')
       THEN /\ response' = Unhandled("ZeroDivisionError")
            /\ pc' = "done"
       ELSE /\ pc' = "score_history"
            /\ UNCHANGED response
    /\ UNCHANGED <<inputs, user_rank, matches, rank_averages, actual_scores, avg_actual_score,
                   predicted_score, rank_tier, adjustment_factor, idx,
                   adjusted_predicted_score, odd_percentage>>

\* lines 157-158
ScoreHistory ==
    /\ pc = "score_history"
    /\ actual_scores' = [k \in DOMAIN matches |->
                            calculate_score(matches[k], normalization_constants, provided_metrics)]
    /\ avg_actual_score' = Average(actual_scores')
    /\ called' = called \cup {"calculate_score"}
    /\ IF IsDivByZero(avg_actual_score')
       THEN /\ response' = Unhandled("ZeroDivisionError")
            /\ pc' = "done"
       ELSE /\ pc' = "score_predicted"
            /\ UNCHANGED response
    /\ UNCHANGED <<inputs, user_rank, matches, rank_averages, provided_metrics,
                   normalization_constants, predicted_score, rank_tier, adjustment_factor,
                   idx, adjusted_predicted_score, odd_percentage>>

\* line 159
ScorePredicted ==
    /\ pc = "score_predicted"
    /\ predicted_score' = calculate_score(Dict(bet_request.predicted_performance),
                                          normalization_constants, provided_metrics)
    /\ called' = called \cup {"calculate_score"}
    /\ pc' = "adjust"
    /\ UNCHANGED <<inputs, user_rank, matches, rank_averages, provided_metrics,
                   normalization_constants, actual_scores, avg_actual_score, rank_tier,
                   adjustment_factor, idx, adjusted_predicted_score, odd_percentage, response>>

\* adjust_score_with_ai, lines 117-122: the rank tier, the early return, the
\* factor's first value
AdjustEnter ==
    /\ pc = "adjust"
    /\ called' = called \cup {"adjust_score_with_ai", "get_rank_tier"}
    /\ LET tier == get_rank_tier(Get(user_rank))
       IN  IF tier.raised # ""
           THEN /\ response' = Unhandled(tier.raised)
                /\ pc' = "done"
                /\ UNCHANGED <<rank_tier, adjustment_factor, idx, adjusted_predicted_score>>
           ELSE /\ rank_tier' = tier.value
                /\ UNCHANGED response
                /\ IF tier.value = 0
                   THEN /\ adjusted_predicted_score' = predicted_score
                        /\ pc' = "odds"
                        /\ UNCHANGED <<adjustment_factor, idx>>
                   ELSE /\ adjustment_factor' = One
                        /\ idx' = 1
                        /\ pc' = "adjust_loop"
                        /\ UNCHANGED adjusted_predicted_score
    /\ UNCHANGED <<inputs, user_rank, matches, rank_averages, provided_metrics,
                   normalization_constants, actual_scores, avg_actual_score, predicted_score,
                   odd_percentage>>

\* adjust_score_with_ai, lines 124-135: one iteration of the loop
AdjustIterate ==
    /\ pc = "adjust_loop"
    /\ idx <= Len(provided_metrics)
    /\ adjustment_factor' = AdjustStep(adjustment_factor, predicted_score, avg_actual_score,
                                       rank_tier, provided_metrics[idx], rank_averages)
    /\ idx' = idx + 1
    /\ UNCHANGED <<inputs, pc, user_rank, matches, rank_averages, provided_metrics,
                   normalization_constants, actual_scores, avg_actual_score, predicted_score,
                   rank_tier, adjusted_predicted_score, odd_percentage, response, called>>

\* adjust_score_with_ai, line 137
AdjustReturn ==
    /\ pc = "adjust_loop"
    /\ idx > Len(provided_metrics)
    /\ adjusted_predicted_score' = RMul(predicted_score, adjustment_factor)
    /\ pc' = "odds"
    /\ UNCHANGED <<inputs, user_rank, matches, rank_averages, provided_metrics,
                   normalization_constants, actual_scores, avg_actual_score, predicted_score,
                   rank_tier, adjustment_factor, idx, odd_percentage, response, called>>

\* (adjusted_predicted_score / avg_actual_score) * 100 if avg_actual_score != 0 else 0
OddPercentage(adjusted, avg) ==
    IF avg # Zero THEN RMul(RDiv(adjusted, avg), FromInt(100)) ELSE Zero

\* lines 163-170: the JSON object returned
Result(userId, rank, predicted, adjusted, avg, odds) ==
    [status |-> 200, detail |-> "", about |-> <<>>,
     body |-> <<[userId |-> userId,
                 rank |-> rank,
                 predicted_score |-> Round2(predicted),
                 adjusted_predicted_score |-> Round2(adjusted),
                 performance_score |-> Round2(avg),
                 odd_percentage |-> Round2(odds)]>>]

\* lines 161-170
Respond ==
    /\ pc = "odds"
    /\ odd_percentage' = OddPercentage(adjusted_predicted_score, avg_actual_score)
    /\ IF IsDivByZero(odd_percentage')
       THEN response' = Unhandled("ZeroDivisionError")
       ELSE response' = Result(bet_request.userId, Get(user_rank), predicted_score,
                               adjusted_predicted_score, avg_actual_score, odd_percentage')
    /\ pc' = "done"
    /\ UNCHANGED <<inputs, user_rank, matches, rank_averages, provided_metrics,
                   normalization_constants, actual_scores, avg_actual_score, predicted_score,
                   rank_tier, adjustment_factor, idx, adjusted_predicted_score, called>>

\* adjust_score_with_ai as a function of its arguments
adjust_score_with_ai(predicted, user_avg_score, averages, metrics, rank) ==
    LET tier == get_rank_tier(rank)
    IN  IF tier.raised # "" THEN tier
        ELSE [raised |-> "",
              value |-> AdjustWithTier(predicted, user_avg_score, averages, metrics, tier.value)]

\* calculate_performance as a function of the two files and the request: the
\* response it ends with
calculate_performance(d, g, request) ==
    LET rank == get_user_rank(d, request.userId)
        own == UserMatches(d.matchResults, request.userId)
    IN  IF Falsy(rank)
        THEN HTTPException("No rank found for user", <<request.userId>>)
        ELSE IF own = <<>>
        THEN HTTPException("No match history found for user", <<request.userId>>)
        ELSE IF fetch_rank_averages(g, Get(rank)) = {}
        THEN HTTPException("No global data found for rank", Get(rank))
        ELSE LET averages == fetch_rank_averages(g, Get(rank))
                 metrics == ProvidedMetrics(request.predicted_performance)
                 constants == calculate_normalization_constants(own, metrics)
                 avg == Average([k \in DOMAIN own |->
                                    calculate_score(own[k], constants, metrics)])
                 predicted == calculate_score(Dict(request.predicted_performance),
                                              constants, metrics)
                 adjusted == adjust_score_with_ai(predicted, avg, averages, metrics, Get(rank))
             IN  IF AnyDivByZero(constants) \/ IsDivByZero(avg)
                 THEN Unhandled("ZeroDivisionError")
                 ELSE IF adjusted.raised # "" THEN Unhandled(adjusted.raised)
                 ELSE IF IsDivByZero(OddPercentage(adjusted.value, avg))
                 THEN Unhandled("ZeroDivisionError")
                 ELSE Result(request.userId, Get(rank), predicted, adjusted.value, avg,
                             OddPercentage(adjusted.value, avg))

Next ==
    \/ GetUserRank
    \/ FilterMatches
    \/ FetchRankAverages
    \/ Normalize
    \/ ScoreHistory
    \/ ScorePredicted
    \/ AdjustEnter
    \/ AdjustIterate
    \/ AdjustReturn
    \/ Respond

\* adjust_score_with_ai called on its own
NextAdjust ==
    \/ AdjustEnter
    \/ AdjustIterate
    \/ AdjustReturn

(***************************************************************************)
(* The inputs the model draws from.                                        *)
(***************************************************************************)
Users == {"u1", "u2"}

Gold1 == <<"G", "o", "l", "d", " ", "1">>
Gold2 == <<"G", "o", "l", "d", " ", "2">>
Iron1 == <<"I", "r", "o", "n", " ", "1">>
Radiant == <<"R", "a", "d", "i", "a", "n", "t">>

\* Rank labels built as lead + word + separator + suffix + trail.
LabelLeads == {<<>>, <<" ">>}
LabelWords == {<<"G", "o", "l", "d">>, <<"g", "o", "l", "d">>, <<"G", "O", "L", "D">>, <<"I", "r", "o", "n">>, <<"R", "a", "d", "i", "a", "n", "t">>, <<"X", "y", "z">>, <<"1">>, <<>>}
LabelSeparators == {<<>>, <<" ">>, <<" ", " ">>}
LabelSuffixes == {<<>>, <<"1">>, <<"2">>, <<"3">>, <<"0">>, <<"x">>, <<"1", ".">>, <<"-", "1">>, <<"-", "3", "0">>, <<"g", "o", "l", "d">>}
LabelTrails == {<<>>, <<" ">>, <<" ", "f", "o", "o">>}
Labels ==
    {l \o w \o p \o x \o t :
        l \in LabelLeads, w \in LabelWords, p \in LabelSeparators,
        x \in LabelSuffixes, t \in LabelTrails}

\* A few labels, used where the numbers vary widely.
FewLabels == {<<"I", "r", "o", "n", " ", "1">>, <<"G", "o", "l", "d", " ", "2">>, <<"R", "a", "d", "i", "a", "n", "t">>, <<"X", "y", "z", " ", "1">>, <<"I", "r", "o", "n", " ", "-", "1">>, <<"I", "r", "o", "n", " ", "-", "3", "0">>}

\* global_data.json: a table of rank baselines, or no file at all.
RankTable ==
    <<[rank |-> Gold1, keys |-> {"rank", "kills", "deaths"}],
      [rank |-> Gold2, keys |-> {"rank", "kills"}],
      [rank |-> Iron1, keys |-> {"rank", "kills", "deaths"}],
      [rank |-> Radiant, keys |-> {"rank", "deaths"}]>>
GlobalData == {[ranks |-> RankTable], [ranks |-> <<>>]}

Match(name, kills, deaths) == [name |-> name, kills |-> kills, deaths |-> deaths]

SeqsUpTo(S, n) == UNION {[1..k -> S] : k \in 0..n}

\* every match of every player, the values taken at the ends of their range
MixedMatches == {Match(u, k, d) : u \in Users, k \in {0, MaxVal}, d \in {0, MaxVal}}

\* the matches of one player, every value of the range
OwnMatches(u) == {Match(u, k, d) : k \in 0..MaxVal, d \in 0..MaxVal}

\* match lists in non-decreasing order of (kills, deaths)
Ordered(ms) ==
    \A i \in 1..(Len(ms) - 1) :
        \/ ms[i].kills < ms[i + 1].kills
        \/ (ms[i].kills = ms[i + 1].kills /\ ms[i].deaths <= ms[i + 1].deaths)

Optionals(S) == {None} \cup {Some(v) : v \in S}
Predicted(kills, deaths) == [kills |-> kills, deaths |-> deaths]

TwoMatches == <<Match("u1", 2, 1), Match("u1", 0, 1)>>

Locals ==
    /\ pc = "start"
    /\ user_rank = None
    /\ matches = <<>>
    /\ rank_averages = {}
    /\ provided_metrics = <<>>
    /\ normalization_constants = <<>>
    /\ actual_scores = <<>>
    /\ avg_actual_score = Zero
    /\ predicted_score = Zero
    /\ rank_tier = 0
    /\ adjustment_factor = One
    /\ idx = 1
    /\ adjusted_predicted_score = Zero
    /\ odd_percentage = Zero
    /\ response = NoResponse
    /\ called = {}

\* Requests over data files holding several players' matches, with and
\* without a rank for the requesting user.
InitMixed ==
    /\ data \in [username : Users,
                 rank : {None, Some(<<>>), Some(Gold1), Some(<<"X", "y", "z", " ", "1">>)},
                 matchResults : SeqsUpTo(MixedMatches, MaxMatches)]
    /\ global_data \in GlobalData
    /\ bet_request \in [userId : {"u1"},
                        predicted_performance :
                            {Predicted(None, None), Predicted(Some(1), None),
                             Predicted(Some(1), Some(1))}]

\* Requests of a ranked user over every match history and prediction in range.
InitOwn ==
    /\ data \in [username : {"u1"},
                 rank : {Some(Gold1)},
                 matchResults : {ms \in SeqsUpTo(OwnMatches("u1"), MaxMatches) :
                                    ms # <<>> /\ Ordered(ms)}]
    /\ global_data = [ranks |-> RankTable]
    /\ bet_request \in [userId : {"u1"},
                        predicted_performance :
                            [kills : Optionals(0..MaxPred), deaths : Optionals(0..MaxPred)]]

\* Requests of a user whose rank label is any of Labels.
InitLabels ==
    /\ data \in [username : {"u1"},
                 rank : {Some(l) : l \in Labels},
                 matchResults : {TwoMatches}]
    /\ global_data = [ranks |-> RankTable]
    /\ bet_request \in [userId : {"u1"},
                        predicted_performance :
                            {Predicted(Some(1), Some(1)), Predicted(Some(2), None),
                             Predicted(None, None)}]

Init == Locals /\ (InitMixed \/ InitOwn \/ InitLabels)

Spec == Init /\ [][Next]_vars

(***************************************************************************)
(* adjust_score_with_ai called on its own: its five arguments are drawn    *)
(* from bounded sets and the handler's other variables are idle.           *)
(***************************************************************************)
Scores == {Rat(n, d) : n \in 0..MaxNum, d \in 1..MaxDen}

MetricLists == {SelectSeq(Fields, LAMBDA f : f \in S) : S \in SUBSET Range(Fields)}
RankAverages == {{"rank", "kda", "kills", "deaths"}, {"rank", "kills"}, {"rank"}}

Idle ==
    /\ data = [username |-> "u1", rank |-> None, matchResults |-> <<>>]
    /\ global_data = [ranks |-> <<>>]
    /\ bet_request = [userId |-> "u1", predicted_performance |-> Predicted(None, None)]
    /\ pc = "adjust"
    /\ matches = <<>>
    /\ normalization_constants = <<>>
    /\ actual_scores = <<>>
    /\ rank_tier = 0
    /\ adjustment_factor = One
    /\ idx = 1
    /\ adjusted_predicted_score = Zero
    /\ odd_percentage = Zero
    /\ response = NoResponse
    /\ called = {}

InitAdjustScores ==
    /\ user_rank \in {Some(l) : l \in FewLabels}
    /\ predicted_score \in Scores
    /\ avg_actual_score \in Scores
    /\ rank_averages \in RankAverages
    /\ provided_metrics \in MetricLists

InitAdjustLabels ==
    /\ user_rank \in {Some(l) : l \in Labels}
    /\ predicted_score \in {One, FromInt(2)}
    /\ avg_actual_score = One
    /\ rank_averages = {"rank", "kills"}
    /\ provided_metrics \in {<<"kills">>, <<"kills", "deaths">>}

\* three iterations of the loop, over whole predicted scores
InitAdjustLong ==
    /\ user_rank \in {Some(l) : l \in FewLabels}
    /\ predicted_score \in {FromInt(n) : n \in 0..(2 * MaxNum)}
    /\ avg_actual_score \in {One, FromInt(2)}
    /\ rank_averages \in RankAverages
    /\ provided_metrics = <<"kda", "kills", "deaths">>

InitAdjust == Idle /\ (InitAdjustScores \/ InitAdjustLabels \/ InitAdjustLong)

SpecAdjust == InitAdjust /\ [][NextAdjust]_vars

(***************************************************************************)
(* Properties.                                                             *)
(***************************************************************************)
userId == bet_request.userId
Finished == pc = "done"
Returned == pc = "done" /\ response.status = 200

\* the requesting user has a match in the data file
HasOwnMatch == \E k \in DOMAIN data.matchResults : data.matchResults[k].name = userId
\* the rank lookup gives a non-empty label
RankKnown == data.username = userId /\ ~IsNone(data.rank) /\ Get(data.rank) # <<>>
ScoringInvoked == called \cap {"calculate_normalization_constants", "calculate_score"} # {}
NoHistory == HTTPException("No match history found for user", <<userId>>)
NoRank == HTTPException("No rank found for user", <<userId>>)

\* C1, as stated: a request whose user has no match in the data file ends with
\* the 'no match history' error naming the user and invokes neither
\* calculate_normalization_constants nor calculate_score, whatever the rank
\* lookup gives.
C1_NoHistoryAlwaysReported ==
    ~HasOwnMatch => (~ScoringInvoked /\ (Finished => response = NoHistory))

\* C1, amended: such a request ends with a 404 naming the user and never
\* invokes the scoring functions; the error is 'no match history' when the
\* rank lookup gives a non-empty rank and 'no rank found' when it does not,
\* whatever the rank-baseline lookup would give.
C1_NoHistoryReportedAfterRank ==
    ~HasOwnMatch =>
        /\ ~ScoringInvoked
        /\ "fetch_rank_averages" \notin called
        /\ Finished => response = (IF RankKnown THEN NoHistory ELSE NoRank)

\* C1's case: another player's matches only, a known rank, no baseline table
C1_Witness ==
    /\ Finished
    /\ ~HasOwnMatch
    /\ data.matchResults # <<>>
    /\ RankKnown
    /\ global_data.ranks = <<>>
    /\ response = NoHistory

\* the normalization constants have been computed
Normalized == "calculate_normalization_constants" \in called /\ response.status # 500

\* max_m: the largest value of the metric over the user's history
HistoryMax(metric) ==
    CHOOSE v \in {matches[k][metric] : k \in DOMAIN matches} :
        \A k \in DOMAIN matches : matches[k][metric] <= v

RECURSIVE MaxContribution(_)
MaxContribution(metrics) ==
    IF metrics = <<>> THEN Zero
    ELSE RAdd(RMul(normalization_constants[Head(metrics)], FromInt(HistoryMax(Head(metrics)))),
              MaxContribution(Tail(metrics)))

NonNegativeConstants ==
    \A m \in DOMAIN normalization_constants : RLeq(Zero, normalization_constants[m])

\* C2, as stated: the constants are non-negative and the sum over the active
\* metrics of constant[m] * max_m is 1, and 0 when no metric is active.
C2_MaxContributionsSumToOne ==
    Normalized =>
        /\ NonNegativeConstants
        /\ MaxContribution(provided_metrics) =
               (IF provided_metrics = <<>> THEN Zero ELSE One)

\* C2, amended: the constants are non-negative, and constant[m] * max_m is 1/n
\* for every active metric whose maximum is not 0 and 0 for every one whose
\* maximum is 0 (n active metrics), so the sum is k/n with k the number of
\* active metrics of non-zero maximum: 1 when no active metric has maximum 0,
\* and 0 when no metric is active.
C2_MaxContributionsSumToShare ==
    Normalized =>
        LET n == Len(provided_metrics)
            k == Cardinality({m \in Range(provided_metrics) : HistoryMax(m) # 0})
        IN  /\ NonNegativeConstants
            /\ DOMAIN normalization_constants = Range(provided_metrics)
            /\ \A m \in Range(provided_metrics) :
                   RMul(normalization_constants[m], FromInt(HistoryMax(m))) =
                       (IF HistoryMax(m) # 0 THEN Rat(1, n) ELSE Zero)
            /\ MaxContribution(provided_metrics) = (IF n = 0 THEN Zero ELSE Rat(k, n))
            /\ (n > 0 /\ k = n) => MaxContribution(provided_metrics) = One

\* C2's case: two active metrics of different non-zero maxima over two matches
C2_Witness ==
    /\ Normalized
    /\ Len(provided_metrics) = 2
    /\ Len(matches) = 2
    /\ HistoryMax("kills") = 2
    /\ HistoryMax("deaths") = 1
    /\ MaxContribution(provided_metrics) = One

\* the loop of adjust_score_with_ai is running or has returned
InLoop == pc = "adjust_loop"
AdjustReturned == pc = "odds" /\ response.status = 0
Half == <<1, 2>>
ThreeHalves == <<3, 2>>

\* C3: with rank_tier > 0 the adjustment factor is within [0.5, 1.5] after
\* every iteration of the loop and at return, so the returned score is between
\* 0.5 and 1.5 times the predicted score.
C3_FactorWithinBounds ==
    (rank_tier > 0 /\ (InLoop \/ AdjustReturned)) =>
        /\ RLeq(Half, adjustment_factor)
        /\ RLeq(adjustment_factor, ThreeHalves)
        /\ AdjustReturned =>
               /\ RLeq(RMul(Half, predicted_score), adjusted_predicted_score)
               /\ RLeq(adjusted_predicted_score, RMul(ThreeHalves, predicted_score))

\* the multiplier 1 - deviation * 0.2 * rank_scaling of one iteration
DiscountMultiplier ==
    RSub(One, RMul(RMul(RSub(RDiv(predicted_score, avg_actual_score), One), <<1, 5>>),
                   RAdd(One, Rat(rank_tier, 10))))

\* C3's case: a negative single multiplier, applied in two iterations
C3_Witness ==
    /\ AdjustReturned
    /\ rank_tier > 0
    /\ RLess(Zero, avg_actual_score)
    /\ RLess(DiscountMultiplier, Zero)
    /\ Len(provided_metrics) >= 2
    /\ Range(provided_metrics) \subseteq rank_averages
    /\ adjustment_factor = Half
    /\ adjusted_predicted_score = RMul(Half, predicted_score)

\* The labels C4 calls unrecognized: an unknown base name (a base written
\* together with its numeral is one), a tier suffix that is not a numeral, or
\* more than two tokens.
Unrecognized(label) ==
    LET tokens == Split(Lower(label))
    IN  /\ tokens # <<>>
        /\ \/ tokens[1] \notin Range(base_rank_names)
           \/ Len(tokens) >= 2 /\ ~AllDigits(tokens[2])
           \/ Len(tokens) > 2

\* C4, as stated: for a label that is not a recognized rank get_rank_tier
\* returns 0 without raising and adjust_score_with_ai returns the predicted
\* score unchanged.
C4_UnrecognizedIsTierZero ==
    (Unrecognized(Get(user_rank)) /\ pc # "adjust") =>
        /\ response.status # 500
        /\ rank_tier = 0
        /\ pc = "odds"
        /\ adjusted_predicted_score = predicted_score

\* some finished or running call got a baseline entry for its rank label
BaselineFound == rank_averages # {}
TierResolved == pc \in {"adjust_loop", "odds"} \/ (Finished /\ "get_rank_tier" \in called)

\* C5: the result for the requesting user is the result over the data file
\* with every other player's records removed: the response, the normalization
\* constants and the baseline average depend on the user's own records only.
OwnRecords == SelectSeq(data.matchResults, LAMBDA m : m.name = userId)
OwnData == [data EXCEPT !.matchResults = OwnRecords]
C5_OnlyOwnRecordsCount ==
    /\ Finished => response = calculate_performance(OwnData, global_data, bet_request)
    /\ Normalized =>
           normalization_constants =
               calculate_normalization_constants(OwnRecords, provided_metrics)
    /\ Returned =>
           avg_actual_score =
               Average([k \in DOMAIN OwnRecords |->
                           calculate_score(OwnRecords[k], normalization_constants,
                                           provided_metrics)])

\* C5's case: a result returned although another player holds larger values
C5_Witness ==
    /\ Returned
    /\ provided_metrics # <<>>
    /\ \E k \in DOMAIN data.matchResults :
           /\ data.matchResults[k].name # userId
           /\ \A j \in DOMAIN OwnRecords :
                  data.matchResults[k].kills > OwnRecords[j].kills
    /\ RLess(Zero, avg_actual_score)

\* C6, as stated: no ZeroDivisionError is ever raised; a metric whose maximum
\* over the history is 0 gets the constant 0; and whenever the baseline
\* average is 0 the request returns a result whose odds percentage is 0.
BaselineComputed == "calculate_score" \in called
C6_NoDivisionByZero ==
    /\ response.detail # "ZeroDivisionError"
    /\ Normalized =>
           \A m \in Range(provided_metrics) :
               HistoryMax(m) = 0 => normalization_constants[m] = Zero
    /\ (Finished /\ BaselineComputed /\ avg_actual_score = Zero) =>
           /\ response.status = 200
           /\ odd_percentage = Zero
           /\ response.body[1].odd_percentage = Zero

\* C7: when the predicted score equals a baseline greater than 0, the odds
\* percentage returned is exactly 100, whatever the rank tier and the number
\* of active metrics.
Hundred == <<100, 1>>
C7_EqualScoresGiveHundred ==
    (Returned /\ predicted_score = avg_actual_score /\ RLess(Zero, avg_actual_score)) =>
        /\ odd_percentage = Hundred
        /\ response.body[1].odd_percentage = Hundred

\* C7's case: two active metrics, both in the rank baseline, a tier above 0
C7_Witness ==
    /\ Returned
    /\ predicted_score = avg_actual_score
    /\ RLess(Zero, avg_actual_score)
    /\ rank_tier > 0
    /\ Len(provided_metrics) = 2
    /\ Range(provided_metrics) \subseteq rank_averages
    /\ Len(matches) = 2

\* weight[m] = max(0.1, 1 - stake / (value[m] + 1))
StakeWeight(stake, value) == RMax(<<1, 10>>, RSub(One, Rat(stake, value + 1)))

RECURSIVE StakeWeightedScore(_, _, _, _)
StakeWeightedScore(performance, constants, metrics, stake) ==
    IF metrics = <<>> THEN Zero
    ELSE RAdd(RMul(RMul(FromInt(performance[Head(metrics)]), constants[Head(metrics)]),
                   StakeWeight(stake, performance[Head(metrics)])),
              StakeWeightedScore(performance, constants, Tail(metrics), stake))

\* C8, as stated: the predicted score is the stake-weighted sum, each metric's
\* value[m] * constant[m] multiplied by max(0.1, 1 - stake / (value[m] + 1)),
\* with the stake 15 of a caller that gives none.
C8_ScoreIsStakeWeighted ==
    (pc \in {"adjust", "adjust_loop", "odds"} \/ Returned) =>
        predicted_score =
            StakeWeightedScore(Dict(bet_request.predicted_performance),
                               normalization_constants, provided_metrics, 15)

\* the score adjust_score_with_ai returns for another label, same arguments
AdjustedFor(label) ==
    adjust_score_with_ai(predicted_score, avg_actual_score, rank_averages,
                         provided_metrics, label)
TierOf(label) == get_rank_tier(label)

\* C9, as stated: with a baseline above 0, a predicted score above the
\* baseline is never raised by the adjustment and a higher rank tier never
\* gives a larger adjusted score; a predicted score at or below the baseline
\* is never lowered and a higher tier never gives a smaller adjusted score.
C9_AdjustmentDirection ==
    (AdjustReturned /\ RLess(Zero, avg_actual_score)) =>
        IF RLess(avg_actual_score, predicted_score)
        THEN /\ RLeq(adjusted_predicted_score, predicted_score)
             /\ \A l \in FewLabels :
                    (TierOf(l).raised = "" /\ TierOf(l).value > rank_tier) =>
                        RLeq(AdjustedFor(l).value, adjusted_predicted_score)
        ELSE /\ RLeq(predicted_score, adjusted_predicted_score)
             /\ \A l \in FewLabels :
                    (TierOf(l).raised = "" /\ TierOf(l).value > rank_tier) =>
                        RLeq(adjusted_predicted_score, AdjustedFor(l).value)

\* C10, as stated: a label for which fetch_rank_averages finds a baseline
\* entry gets a tier above 0 from get_rank_tier, which does not raise.
C10_ParsersAgree ==
    (BaselineFound /\ TierResolved) => (response.status # 500 /\ rank_tier > 0)

====
